---- MODULE Spec2Model ----
(***************************************************************************)
(* Model of the Parkinson's clinical-outcome scripts:                      *)
(*   src/pd_clinical/pd_clinical_outcome_stats.py   (the validated script) *)
(*   src/python_696_project/compute_co-relations.py (the earlier script)   *)
(*                                                                         *)
(* Numbers.  The scripts compute with IEEE doubles on non-negative cell    *)
(* values.  A double is modelled as a pair <<n, d>>: a reduced fraction    *)
(* n/d with d > 0, <<1, 0>> for +inf and <<0, 0>> for NaN.  Division and   *)
(* multiplication follow IEEE (x/0 = inf for x > 0, 0/0 = NaN); rounding   *)
(* is not modelled (every quotient of the bounded inputs is exact).        *)
(*                                                                         *)
(* Exceptions.  A function that can raise returns [kind |-> "raise", exc]  *)
(* or [kind |-> "ok", val]; operators whose outcome the library leaves     *)
(* open (the order of equal keys in sort_values, the treatment of NaN by   *)
(* the rank-sum routine) return the SET of their possible outcomes.        *)
(***************************************************************************)
EXTENDS Integers, Sequences, FiniteSets, TLC

\* ---------------------------------------------------------------- bounds
\* rows per sheet of a workbook processed by a run of a script
MaxRows == 1
\* rows per sheet handed directly to a metric function
MaxLen == 2

\* ------------------------------------------------------ program constants
SUCCESS == 0
INVALID_DATA == 1
IO_ERROR == 2

\* Python values of mixed type are kept apart by their record fields
PyNone == [none |-> TRUE]
PyList(l) == [list |-> l]
Code(n) == [code |-> n]
Unset == [unset |-> TRUE]
Absent == [absent |-> TRUE]
NoExc == "none"

sheet_list == "LSTN_activation, dvSTN_activation, RSTN_activation"
RequiredSheets == {"LSTN_activation", "dvSTN_activation", "RSTN_activation"}

out_txt_name == "wilcoxon_test_out.txt"
out_fig_name == "co_relations.png"
ReportHeader == "Wilcoxon_p-values:\n"

MotorColumns ==
  {"Patient", "Side", "Motor score (on stim)", "Motor score (off stim)", "Voltage [V]"}

\* column names of the activation-volume sheet, validated script
StnVolCol(side) == "STN vol (" \o side \o ") [mm3]"
VtaCol(side) == "VTA inside STN (" \o side \o ") [mm3]"
\* column names of the activation-volume sheet, earlier script
DStnVolCol(side) == "dSTN vol (" \o side \o ") [mm3]"
VStnVolCol(side) == "vSTN vol (" \o side \o ") [mm3]"
VtaDCol(side) == "VTA inside dSTN (" \o side \o ") [mm3]"
VtaVCol(side) == "VTA inside vSTN (" \o side \o ") [mm3]"

Sides == {"L", "R"}

\* ------------------------------------------------------------ arithmetic
RECURSIVE GCD(_, _)
GCD(a, b) == IF b = 0 THEN a ELSE GCD(b, a % b)

NaN == <<0, 0>>
Inf == <<1, 0>>
Rat(n, d) == LET g == GCD(n, d) IN <<n \div g, d \div g>>
FromInt(k) == <<k, 1>>
IsNaN(x) == x = NaN
IsInf(x) == x = Inf

\* x / y on doubles >= 0 (numpy true division: no exception on a zero divisor)
FDiv(x, y) ==
  IF IsNaN(x) \/ IsNaN(y) THEN NaN
  ELSE IF IsInf(x) THEN (IF IsInf(y) THEN NaN ELSE Inf)
  ELSE IF IsInf(y) THEN FromInt(0)
  ELSE IF y[1] = 0 THEN (IF x[1] = 0 THEN NaN ELSE Inf)
  ELSE Rat(x[1] * y[2], x[2] * y[1])

\* x * y on doubles >= 0
FMul(x, y) ==
  IF IsNaN(x) \/ IsNaN(y) THEN NaN
  ELSE IF IsInf(x) THEN (IF y[1] = 0 THEN NaN ELSE Inf)
  ELSE IF IsInf(y) THEN (IF x[1] = 0 THEN NaN ELSE Inf)
  ELSE Rat(x[1] * y[1], x[2] * y[2])

\* x + y on integer cells
FAdd(x, y) == x + y

\* x < y on doubles that are not NaN
FLess(x, y) ==
  IF IsInf(x) THEN FALSE
  ELSE IF IsInf(y) THEN TRUE
  ELSE x[1] * y[2] < y[1] * x[2]

\* ------------------------------------------------------------ data frames
\* A DataFrame is [columns |-> set of names, rows |-> sequence of functions
\* from the columns to cell values]; a Series is a sequence of
\* [idx |-> row label (position in the sheet), val |-> value].
Ok(v) == [kind |-> "ok", val |-> v]
Raise(e) == [kind |-> "raise", exc |-> e]

Perms(n) == {p \in [1..n -> 1..n] : \A i, j \in 1..n : i # j => p[i] # p[j]}

\* df.sort_values(['Patient']): the row labels in ascending order of Patient;
\* the default sort is not stable, so rows with equal keys come in any order
SortValues(df) ==
  {p \in Perms(Len(df.rows)) :
     \A i \in 1..(Len(df.rows) - 1) :
        df.rows[p[i]]["Patient"] <= df.rows[p[i + 1]]["Patient"]}

\* ------------------------------------------------------- metric derivation
\* ((motor_score_off_stim / motor_score_on_stim) / voltage) of one row
ImprovementOfRow(row) ==
  FDiv(FDiv(FromInt(row["Motor score (off stim)"]), FromInt(row["Motor score (on stim)"])),
       FromInt(row["Voltage [V]"]))

\* (left_active_stn / left_stn_vol) * 100 of one row, validated script
PercentOfRow(row, side) ==
  FMul(FDiv(FromInt(row[VtaCol(side)]), FromInt(row[StnVolCol(side)])), FromInt(100))

\* the same in the earlier script: both volumes are dorsal + ventral sums
PercentOfRowSplit(row, side) ==
  FMul(FDiv(FromInt(FAdd(row[VtaDCol(side)], row[VtaVCol(side)])),
            FromInt(FAdd(row[DStnVolCol(side)], row[VStnVolCol(side)]))),
       FromInt(100))

\* process_lstn_activation without its sort_values call
process_lstn_activation_nosort(df) ==
  IF ~(MotorColumns \subseteq df.columns) THEN {Raise("KeyError")}
  ELSE {Ok([i \in 1..Len(df.rows) |->
             [idx |-> ord[i], val |-> ImprovementOfRow(df.rows[ord[i]])]])
        : ord \in {[i \in 1..Len(df.rows) |-> i]}}

\* improvement score normalised by voltage, one value per row, in sorted order;
\* a column that is absent raises KeyError, a zero divisor raises nothing
process_lstn_activation(df) ==
  IF ~(MotorColumns \subseteq df.columns) THEN {Raise("KeyError")}
  ELSE {Ok([i \in 1..Len(df.rows) |->
             [idx |-> ord[i], val |-> ImprovementOfRow(df.rows[ord[i]])]])
        : ord \in SortValues(df)}

StnColumns(side) == {"Patient", StnVolCol(side), VtaCol(side)}
StnColumnsSplit(side) ==
  {"Patient", DStnVolCol(side), VStnVolCol(side), VtaDCol(side), VtaVCol(side)}

\* percentage STN activation, validated script
process_stn_activation(df, side) ==
  IF ~(StnColumns(side) \subseteq df.columns) THEN {Raise("KeyError")}
  ELSE {Ok([i \in 1..Len(df.rows) |->
             [idx |-> ord[i], val |-> PercentOfRow(df.rows[ord[i]], side)]])
        : ord \in SortValues(df)}

\* percentage STN activation, earlier script
process_stn_activation_split(df, side) ==
  IF ~(StnColumnsSplit(side) \subseteq df.columns) THEN {Raise("KeyError")}
  ELSE {Ok([i \in 1..Len(df.rows) |->
             [idx |-> ord[i], val |-> PercentOfRowSplit(df.rows[ord[i]], side)]])
        : ord \in SortValues(df)}

\* ---------------------------------------------------------- rank-sum test
\* scipy.stats.ranksums(x, y): ranks of the pooled data (ties get the average
\* rank), s = sum of the ranks of x, expected = n1 (n1 + n2 + 1) / 2,
\* z = (s - expected) / sqrt(n1 n2 (n1 + n2 + 1) / 12), p = 2 norm.sf(|z|).
\* Ranks are kept doubled (integers): d2 = 2 (s - expected), v = 12 var, and
\* z is represented by its sign and its square 3 d2^2 / v; p is 1.0 exactly
\* when z is 0.
RECURSIVE SumSet(_)
SumSet(S) == IF S = {} THEN 0 ELSE LET e == CHOOSE e \in S : TRUE IN e + SumSet(S \ {e})

RECURSIVE SumOver(_, _)
SumOver(f, S) ==
  IF S = {} THEN 0 ELSE LET e == CHOOSE e \in S : TRUE IN f[e] + SumOver(f, S \ {e})

Sign(k) == IF k < 0 THEN -1 ELSE IF k > 0 THEN 1 ELSE 0

NaNResult == [statistic |-> [value |-> "nan"], pvalue |-> [value |-> "nan"]]

RanksumsResult(d2, v) ==
  IF v = 0 THEN NaNResult
  ELSE [statistic |-> [sign |-> Sign(d2), sq |-> Rat(3 * d2 * d2, v)],
        pvalue |-> IF d2 = 0 THEN [value |-> "1.0"] ELSE [twoSf |-> Rat(3 * d2 * d2, v)]]

\* The possible results.  Without NaN there is one.  With NaN in the data the
\* outcome depends on the library release: NaN is propagated (statistic and
\* p-value nan), or the NaNs are sorted last and ranked as distinct values in
\* an order the sort leaves open.
ranksums(x, y) ==
  LET n1 == Len(x)
      n2 == Len(y)
      all == [i \in 1..(n1 + n2) |-> IF i <= n1 THEN x[i].val ELSE y[i - n1].val]
      fin == {i \in 1..(n1 + n2) : ~IsNaN(all[i])}
      nans == (1..(n1 + n2)) \ fin
      rank2 == [i \in fin |->
                  2 * Cardinality({j \in fin : FLess(all[j], all[i])})
                  + Cardinality({j \in fin : all[j] = all[i]}) + 1]
      finSum2 == SumOver(rank2, fin \cap (1..n1))
      expected2 == n1 * (n1 + n2 + 1)
      v == n1 * n2 * (n1 + n2 + 1)
      nanRanks == (Cardinality(fin) + 1)..(n1 + n2)
  IN IF nans = {} THEN {RanksumsResult(finSum2 - expected2, v)}
     ELSE {NaNResult} \cup
          {RanksumsResult(finSum2 + 2 * SumSet(T) - expected2, v) :
             T \in {U \in SUBSET nanRanks : Cardinality(U) = Cardinality(nans \cap (1..n1))}}

perform_wilcoxon_rank_test(x, y) == ranksums(x, y)

\* ------------------------------------------------------------ the inputs
InputPath == "book.xlsx"

\* what the path names: nothing, a zero-byte file, an Excel workbook
FileKinds == {"absent", "empty", "workbook"}

\* sys.argv[1:] of a script run, and the argv lists a caller passes to main
SysArgv == << <<"-c">>, <<InputPath>> >>
\* (argparse takes the path as a second token or after "=" in a single token,
\* a token is a tuple of its parts: <<"-c">>, <<path>>, <<"--csv_data_file=", path>>)
ArgvLists == {<< <<"-c">>, <<InputPath>> >>, << <<"--csv_data_file=", InputPath>> >>}

\* parser.parse_args(argv).excel
ParseArgs(a) == IF a[1] = <<"-c">> THEN a[2][1] ELSE a[1][2]

\* the ways a script is run: as a program (`__main__`: main is called with no
\* argument) or, for the validated script, by a call main(argv)
Invocations ==
  {[script |-> "validated", entry |-> "script", argv |-> PyNone],
   [script |-> "earlier", entry |-> "script", argv |-> PyNone]}
  \cup {[script |-> "validated", entry |-> "call", argv |-> PyList(a)] : a \in ArgvLists}

SeqsUpTo(S, n) == UNION {[1..k -> S] : k \in 0..n}

MotorRow(p, on, off, v) ==
  [c \in MotorColumns |->
     CASE c = "Patient" -> p
       [] c = "Side" -> 0
       [] c = "Motor score (on stim)" -> on
       [] c = "Motor score (off stim)" -> off
       [] c = "Voltage [V]" -> v]

VolumeColumns == {"Patient"} \cup UNION {{StnVolCol(s), VtaCol(s)} : s \in Sides}
VolumeColumnsSplit ==
  {"Patient"} \cup UNION {{DStnVolCol(s), VStnVolCol(s), VtaDCol(s), VtaVCol(s)} : s \in Sides}

\* a row of the volume sheet (validated layout): `side` has structure volume
\* vol and activated volume vta, the other side has 1 and 1
VolumeRow(p, side, vol, vta) ==
  [c \in VolumeColumns |->
     CASE c = "Patient" -> p
       [] c = StnVolCol(side) -> vol
       [] c = VtaCol(side) -> vta
       [] OTHER -> 1]

\* a row of the volume sheet (earlier layout)
VolumeRowSplit(p, side, dvol, vvol, dvta, vvta) ==
  [c \in VolumeColumnsSplit |->
     CASE c = "Patient" -> p
       [] c = DStnVolCol(side) -> dvol
       [] c = VStnVolCol(side) -> vvol
       [] c = VtaDCol(side) -> dvta
       [] c = VtaVCol(side) -> vvta
       [] OTHER -> 1]

Frame(cols, rows) == [columns |-> cols, rows |-> rows]

\* the frame without column c
DropColumn(df, c) ==
  Frame(df.columns \ {c},
        [i \in 1..Len(df.rows) |-> [k \in df.columns \ {c} |-> df.rows[i][k]]])

\* the end-to-end scenario of the specification
ExampleRows == <<MotorRow(1, 10, 20, 2), MotorRow(2, 5, 15, 1), MotorRow(3, 8, 8, 4)>>
ExampleFrames ==
  {Frame(MotorColumns, [i \in 1..3 |-> ExampleRows[p[i]]]) : p \in Perms(3)}

\* Sheets of the workbooks the scripts are run on: one row per patient, the
\* patients listed in descending order (so that sorting reorders the rows).
\* A motor-score row has (on, off) = (1, 1), (0, 1) or (0, 0) at 1 V: scores
\* 1.0, inf and nan.
BookScores == {<<1, 1>>, <<0, 1>>, <<0, 0>>}
BookMotorFrames ==
  {Frame(MotorColumns, [i \in 1..Len(c) |-> MotorRow(Len(c) + 1 - i, c[i][1], c[i][2], 1)])
     : c \in SeqsUpTo(BookScores, MaxRows)}
  \cup {DropColumn(Frame(MotorColumns, <<MotorRow(1, 1, 1, 1)>>), "Motor score (on stim)")}
BookVolumeFrames ==
  {Frame(VolumeColumns, [i \in 1..k |-> VolumeRow(k + 1 - i, "L", 0, 1)]) : k \in 0..MaxRows}
  \cup {Frame(VolumeColumnsSplit, <<VolumeRowSplit(1, "L", 0, 1, 1, 0)>>)}

SheetFrames(name) == IF name = "dvSTN_activation" THEN BookVolumeFrames ELSE BookMotorFrames

\* the workbooks: any subset of the required sheets, each a frame
Workbooks ==
  UNION {{wb \in [names -> BookMotorFrames \cup BookVolumeFrames] :
             \A n \in names : wb[n] \in SheetFrames(n)}
         : names \in SUBSET RequiredSheets}

\* the exception pd.ExcelFile raises on a zero-byte file depends on the
\* library release; none of them is one main catches
EmptyFileErrors == {"ValueError", "XLRDError"}

\* ------------------------------------------------------------- the state
VARIABLES
  script,            \* which script runs: "validated" or "earlier"
  entry,             \* "script" (`__main__`) or "call" (main(argv))
  argv,              \* main's argument: None or a list
  inputKind,         \* what the input path names
  pc,                \* position of the run
  excel,             \* the open workbook: [sheet_names |-> the names of its sheets]
  sheet_dict,        \* the parsed sheets
  improvement_volt,  \* <<lstn_improvement_volt, rstn_improvement_volt>>
  percent_activation,\* <<lstn_percent_activation, rstn_percent_activation>>
  p_value,           \* result of perform_wilcoxon_rank_test
  ret,               \* value main returned
  raised,            \* exception that left main (or SystemExit)
  exitStatus,        \* exit status of the process, for a script run
  out,               \* what the run printed (stdout and stderr)
  reportFile,        \* content of wilcoxon_test_out.txt
  plotFile,          \* content of co_relations.png
  reportBefore,      \* content of the report when the run started
  plotBefore,        \* content of the image when the run started
  wroteReport,       \* the run opened the report for writing
  wrotePlot,         \* the run saved the image
  call,              \* a direct call of a metric function
  fnResult           \* what the call returned or raised

vars ==
  <<script, entry, argv, inputKind, pc, excel, sheet_dict, improvement_volt,
    percent_activation, p_value, ret, raised, exitStatus, out, reportFile, plotFile,
    reportBefore, plotBefore, wroteReport, wrotePlot, call, fnResult>>

fileVars == <<reportFile, plotFile, reportBefore, plotBefore, wroteReport, wrotePlot>>
dataVars == <<excel, sheet_dict, improvement_volt, percent_activation, p_value>>
runVars == <<script, entry, argv, inputKind>>
callVars == <<call, fnResult>>

InitRun ==
  /\ script = "unset" /\ entry = "unset" /\ argv = PyNone /\ inputKind = "unset"
  /\ pc = "idle"
  /\ excel = Unset /\ sheet_dict = Unset
  /\ improvement_volt = <<>> /\ percent_activation = <<>> /\ p_value = Unset
  /\ ret = Unset /\ raised = NoExc /\ exitStatus = Unset /\ out = <<>>
  /\ reportFile = Absent /\ plotFile = Absent
  /\ reportBefore = Absent /\ plotBefore = Absent
  /\ wroteReport = FALSE /\ wrotePlot = FALSE

Init == InitRun /\ call = Unset /\ fnResult = Unset

\* ------------------------------------------------------ how a run ends
\* the except clauses of main (validated script) applied to an exception raised
\* in its try block: what main returns, what leaves main, what is printed
\* (the same clauses with the warnings and the IO_ERROR clause left out)
MainExcept_silent(exc, av) ==
  IF exc \in {"TypeError", "KeyError"}
  THEN [ret |-> Code(INVALID_DATA), raised |-> NoExc, msgs |-> <<>>]
  ELSE [ret |-> Unset, raised |-> exc, msgs |-> <<>>]

MainExcept(exc, av) ==
  CASE exc = "FileNotFoundError" ->
         \* the warning formats argv[1]: argv is None (TypeError) or too short
         \* (IndexError) and the new exception leaves main from the handler
         IF av = PyNone THEN [ret |-> Unset, raised |-> "TypeError", msgs |-> <<>>]
         ELSE IF Len(av.list) < 2
         THEN [ret |-> Unset, raised |-> "IndexError", msgs |-> <<>>]
         ELSE [ret |-> Code(IO_ERROR), raised |-> NoExc,
               msgs |-> <<"WARNING: Given input excel - " \o av.list[2][1]
                            \o " doesn't exist">>]
    [] exc = "TypeError" -> [ret |-> Code(INVALID_DATA), raised |-> NoExc, msgs |-> <<>>]
    [] exc = "KeyError" ->
         [ret |-> Code(INVALID_DATA), raised |-> NoExc,
          msgs |-> <<"WARNING: Given excel input should have sheets (" \o sheet_list \o ")">>]
    [] OTHER -> [ret |-> Unset, raised |-> exc, msgs |-> <<>>]

\* the earlier script has no handler: every exception leaves main
Uncaught(exc) == [ret |-> Unset, raised |-> exc, msgs |-> <<>>]

Handle(exc) == IF script = "validated" THEN MainExcept(exc, argv) ELSE Uncaught(exc)

\* the value main returns when its try block ends normally: the result of
\* process_excel (and with it the SUCCESS of compute_stn_activation) is dropped
\* and main falls off its end
MainReturn(computeResult) == PyNone

\* exit status of a script run: sys.exit(status) in the validated script (None
\* counts as 0), 0 at the end of the earlier script, 1 after a traceback
ExitStatusOf(r) ==
  IF r.raised = "SystemExit(1)" THEN Code(1)
  ELSE IF r.raised # NoExc THEN Code(1)
  ELSE IF script = "validated" /\ r.ret # PyNone THEN r.ret
  ELSE Code(0)

Traceback(r) ==
  IF entry = "script" /\ r.raised \notin {NoExc, "SystemExit(1)"}
  THEN <<"Traceback (most recent call last): " \o r.raised>> ELSE <<>>

EndRun(printed, r) ==
  /\ pc' = "exit"
  /\ ret' = r.ret
  /\ raised' = r.raised
  /\ out' = out \o printed \o r.msgs \o Traceback(r)
  /\ exitStatus' = IF entry = "script" THEN ExitStatusOf(r) ELSE Unset

\* ------------------------------------------------------------ the report
\* f"Wilcoxon_p-values:\n{p_value}"
ReportText(res) ==
  [text |-> <<ReportHeader, "RanksumsResult(statistic=", res.statistic, ", pvalue=", res.pvalue, ")">>]

\* a file opened in append mode
AppendFile(old, new) == IF old = Absent THEN new ELSE [text |-> old.text \o new.text]

\* open(name, 'w') then write: the old content is gone
WriteFile(old, new) == new

\* ------------------------------------------------------------ the actions
\* a script is started on some input
Start ==
  /\ pc \in {"idle", "exit"}
  /\ \E inv \in Invocations, k \in FileKinds :
       /\ script' = inv.script /\ entry' = inv.entry /\ argv' = inv.argv
       /\ inputKind' = k
  /\ pc' = "get_args"
  /\ excel' = Unset /\ sheet_dict' = Unset
  /\ improvement_volt' = <<>> /\ percent_activation' = <<>> /\ p_value' = Unset
  /\ ret' = Unset /\ raised' = NoExc /\ exitStatus' = Unset /\ out' = <<>>
  /\ reportBefore' = reportFile /\ plotBefore' = plotFile
  /\ wroteReport' = FALSE /\ wrotePlot' = FALSE
  /\ UNCHANGED <<reportFile, plotFile, callVars>>

\* get_args: parse the command line and check the path
GetArgs ==
  /\ pc = "get_args"
  /\ IF inputKind = "absent"
     THEN EndRun(<<>>, Handle("FileNotFoundError"))
     ELSE IF script = "earlier" /\ inputKind = "empty"
     THEN EndRun(<<"ERROR: " \o ParseArgs(SysArgv) \o " is empty">>,
                 [ret |-> Unset, raised |-> "SystemExit(1)", msgs |-> <<>>])
     ELSE /\ pc' = "process_excel"
          /\ UNCHANGED <<ret, raised, exitStatus, out>>
  /\ UNCHANGED <<runVars, dataVars, fileVars, callVars>>

\* convert_sheets_to_df_dicts, validated script: every sheet is parsed, then the
\* three required names are checked
convert_sheets_to_df_dicts(wb) ==
  IF \/ "LSTN_activation" \notin DOMAIN wb
     \/ "dvSTN_activation" \notin DOMAIN wb
     \/ "RSTN_activation" \notin DOMAIN wb
  THEN Raise("KeyError") ELSE Ok(wb)

\* convert_sheets_to_df_dicts, earlier script: no check
convert_sheets_to_df_dicts_earlier(wb) == Ok(wb)

\* the three sheet_dict[...] lookups of process_excel
LookupSheets(sd) == IF RequiredSheets \subseteq DOMAIN sd THEN Ok(sd) ELSE Raise("KeyError")

\* process_excel up to its call of compute_stn_activation
ProcessExcel ==
  /\ pc = "process_excel"
  /\ LET given == <<"Given input : " \o ParseArgs(IF argv = PyNone THEN SysArgv ELSE argv.list)>>
     IN IF inputKind = "empty"
        THEN /\ \E e \in EmptyFileErrors : EndRun(given, Handle(e))
             /\ UNCHANGED dataVars
        ELSE \E wb \in Workbooks :
               LET conv == IF script = "validated" THEN convert_sheets_to_df_dicts(wb)
                           ELSE convert_sheets_to_df_dicts_earlier(wb)
                   got == IF conv.kind = "raise" THEN conv ELSE LookupSheets(conv.val)
               IN /\ excel' = [sheet_names |-> DOMAIN wb]
                  /\ IF got.kind = "raise"
                     THEN /\ EndRun(given, Handle(got.exc))
                          /\ UNCHANGED sheet_dict
                     ELSE /\ sheet_dict' = got.val
                          /\ pc' = "compute"
                          /\ out' = out \o given
                          /\ UNCHANGED <<ret, raised, exitStatus>>
                  /\ UNCHANGED <<improvement_volt, percent_activation, p_value>>
  /\ UNCHANGED <<runVars, fileVars, callVars>>

\* the exception of the first of the four derivations that raises
FirstRaise(rs) ==
  LET bad == {i \in 1..Len(rs) : rs[i].kind = "raise"}
  IN IF bad = {} THEN NoExc ELSE rs[CHOOSE i \in bad : \A j \in bad : i <= j].exc

Values(series) == [i \in 1..Len(series) |-> series[i].val]

\* compute_stn_activation, validated script, up to the rank-sum test
ComputeMetrics ==
  /\ pc = "compute" /\ script = "validated"
  /\ \E l \in process_lstn_activation(sheet_dict["LSTN_activation"]),
        r \in process_lstn_activation(sheet_dict["RSTN_activation"]),
        pl \in process_stn_activation(sheet_dict["dvSTN_activation"], "L"),
        pr \in process_stn_activation(sheet_dict["dvSTN_activation"], "R") :
       IF FirstRaise(<<l, r, pl, pr>>) # NoExc
       THEN /\ EndRun(<<>>, Handle(FirstRaise(<<l, r, pl, pr>>)))
            /\ UNCHANGED <<improvement_volt, percent_activation, p_value>>
       ELSE /\ improvement_volt' = <<l.val, r.val>>
            /\ percent_activation' = <<pl.val, pr.val>>
            /\ p_value' \in perform_wilcoxon_rank_test(l.val, r.val)
            /\ pc' = "write"
            /\ UNCHANGED <<ret, raised, exitStatus, out>>
  /\ UNCHANGED <<runVars, excel, sheet_dict, fileVars, callVars>>

\* compute_stn_activation, earlier script, up to plt.show()
ComputeMetricsEarlier ==
  /\ pc = "compute" /\ script = "earlier"
  /\ \E l \in process_lstn_activation(sheet_dict["LSTN_activation"]),
        r \in process_lstn_activation(sheet_dict["RSTN_activation"]),
        pl \in process_stn_activation_split(sheet_dict["dvSTN_activation"], "L"),
        pr \in process_stn_activation_split(sheet_dict["dvSTN_activation"], "R") :
       IF FirstRaise(<<l, r, pl, pr>>) # NoExc
       THEN /\ EndRun(<<>>, Handle(FirstRaise(<<l, r, pl, pr>>)))
            /\ UNCHANGED <<improvement_volt, percent_activation>>
       ELSE /\ improvement_volt' = <<l.val, r.val>>
            /\ percent_activation' = <<pl.val, pr.val>>
            /\ pc' = "show"
            /\ out' = out \o <<"print(lstn_percent_activation)", "print(rstn_percent_activation)">>
            /\ UNCHANGED <<ret, raised, exitStatus>>
  /\ UNCHANGED <<runVars, excel, sheet_dict, p_value, fileVars, callVars>>

\* with open(out_txt_name, 'w') as output: output.write(...); print(...)
WriteReport ==
  /\ pc = "write"
  /\ \E canOpen \in BOOLEAN :
       IF canOpen
       THEN /\ reportFile' = WriteFile(reportFile, ReportText(p_value))
            /\ wroteReport' = TRUE
            /\ out' = Append(out, "Wilcoxon test output: " \o out_txt_name)
            /\ pc' = "plot"
            /\ UNCHANGED <<ret, raised, exitStatus>>
       ELSE /\ EndRun(<<>>, Handle("PermissionError"))
            /\ UNCHANGED <<reportFile, wroteReport>>
  /\ UNCHANGED <<runVars, dataVars, plotFile, reportBefore, plotBefore, wrotePlot, callVars>>

\* the scatter plot saved with plt.savefig before the report is written
SavePlotFirst ==
  /\ pc = "write"
  /\ plotFile' = [image |-> "scatter"]
  /\ wrotePlot' = TRUE
  /\ out' = Append(out, "Scatter plot image: " \o out_fig_name)
  /\ UNCHANGED <<pc, ret, raised, exitStatus>>
  /\ UNCHANGED <<runVars, dataVars, reportFile, reportBefore, plotBefore, wroteReport, callVars>>

\* the scatter plot, plt.savefig(out_fig_name), and the return through
\* process_excel and main
SavePlot ==
  /\ pc = "plot"
  /\ plotFile' = [image |-> "scatter"]
  /\ wrotePlot' = TRUE
  /\ EndRun(<<"Scatter plot image: " \o out_fig_name>>,
            [ret |-> MainReturn(SUCCESS), raised |-> NoExc, msgs |-> <<>>])
  /\ UNCHANGED <<runVars, dataVars, reportFile, reportBefore, plotBefore, wroteReport, callVars>>

\* earlier script: plt.show(), then main ends
ShowPlot ==
  /\ pc = "show"
  /\ EndRun(<<>>, [ret |-> PyNone, raised |-> NoExc, msgs |-> <<>>])
  /\ UNCHANGED <<runVars, dataVars, fileVars, callVars>>

Next ==
  \/ Start
  \/ GetArgs
  \/ ProcessExcel
  \/ ComputeMetrics
  \/ ComputeMetricsEarlier
  \/ WriteReport
  \/ SavePlot
  \/ ShowPlot

Spec == Init /\ [][Next]_vars

\* ------------------------------------------- the metric functions alone
\* inputs of direct calls of the metric functions
PatientIds == {1, 2}
MetricOnScores == {0, 1, 2}
MetricOffScores == {0, 1, 2}
MetricVolts == {0, 2}
MetricVolumes == {0, 1, 2}

MetricMotorRows ==
  {MotorRow(p, on, off, v) :
     p \in PatientIds, on \in MetricOnScores, off \in MetricOffScores, v \in MetricVolts}
MetricVolumeRows(side) ==
  {VolumeRow(p, side, vol, vta) :
     p \in PatientIds, vol \in MetricVolumes, vta \in MetricVolumes}
MetricVolumeRowsSplit(side) ==
  {VolumeRowSplit(p, side, dvol, vvol, dvta, 0) :
     p \in PatientIds, dvol \in {0, 1}, vvol \in {0, 1}, dvta \in {0, 1}}

\* frames that lack a column, and the example sheet in every row order
MetricOddMotorFrames ==
  ExampleFrames
  \cup {DropColumn(Frame(MotorColumns, <<MotorRow(1, 1, 1, 1)>>), c) : c \in MotorColumns}
MetricOddVolumeFrames(side) ==
  {DropColumn(Frame(VolumeColumns, <<VolumeRow(1, side, 1, 1)>>), StnVolCol(side))}
MetricOddVolumeFramesSplit(side) ==
  {DropColumn(Frame(VolumeColumnsSplit, <<VolumeRowSplit(1, side, 1, 1, 1, 1)>>),
              VStnVolCol(side))}

Call(fn, df, side) == [fn |-> fn, df |-> df, side |-> side]

InitMetric ==
  /\ InitRun
  /\ fnResult = Unset
  /\ \/ \E k \in 0..MaxLen : \E r \in [1..k -> MetricMotorRows] :
          call = Call("process_lstn_activation", Frame(MotorColumns, r), "-")
     \/ \E f \in MetricOddMotorFrames : call = Call("process_lstn_activation", f, "-")
     \/ \E sd \in Sides, k \in 0..MaxLen : \E r \in [1..k -> MetricVolumeRows(sd)] :
          call = Call("process_stn_activation", Frame(VolumeColumns, r), sd)
     \/ \E sd \in Sides : \E f \in MetricOddVolumeFrames(sd) :
          call = Call("process_stn_activation", f, sd)
     \/ \E sd \in Sides, k \in 0..MaxLen : \E r \in [1..k -> MetricVolumeRowsSplit(sd)] :
          call = Call("process_stn_activation_split", Frame(VolumeColumnsSplit, r), sd)
     \/ \E sd \in Sides : \E f \in MetricOddVolumeFramesSplit(sd) :
          call = Call("process_stn_activation_split", f, sd)

ApplyImprovementScore ==
  /\ call.fn = "process_lstn_activation" /\ fnResult = Unset
  /\ fnResult' \in process_lstn_activation(call.df)
  /\ UNCHANGED <<runVars, pc, dataVars, ret, raised, exitStatus, out, fileVars, call>>

ApplyPercentActivation ==
  /\ call.fn = "process_stn_activation" /\ fnResult = Unset
  /\ fnResult' \in process_stn_activation(call.df, call.side)
  /\ UNCHANGED <<runVars, pc, dataVars, ret, raised, exitStatus, out, fileVars, call>>

ApplyPercentActivationSplit ==
  /\ call.fn = "process_stn_activation_split" /\ fnResult = Unset
  /\ fnResult' \in process_stn_activation_split(call.df, call.side)
  /\ UNCHANGED <<runVars, pc, dataVars, ret, raised, exitStatus, out, fileVars, call>>

NextMetric ==
  \/ ApplyImprovementScore
  \/ ApplyPercentActivation
  \/ ApplyPercentActivationSplit

SpecMetric == InitMetric /\ [][NextMetric]_vars

\* ================================================================ claims
Printed(msg) == \E i \in 1..Len(out) : out[i] = msg

MissingFileWarning == "WARNING: Given input excel - " \o InputPath \o " doesn't exist"
MissingSheetWarning == "WARNING: Given excel input should have sheets (" \o sheet_list \o ")"
EmptyInputMessage == "ERROR: " \o InputPath \o " is empty"

\* C1: whenever the path does not name an existing file, the validated script
\* reports it and main ends with code 2 (IO_ERROR), however main is invoked,
\* the script entry point (argv is None) included.
C1_MissingFileEndsWithIOError ==
  (pc = "exit" /\ script = "validated" /\ inputKind = "absent")
    => /\ ret = Code(IO_ERROR)
       /\ raised = NoExc
       /\ Printed(MissingFileWarning)
       /\ (entry = "script" => exitStatus = Code(IO_ERROR))

\* C2: whenever the parsed workbook lacks one of the three required sheets, the
\* validated script fails with the missing-sheet error: the message listing the
\* required sheets is printed, the run ends with code 1 (INVALID_DATA), and
\* nothing of the workbook is processed further.
C2_MissingSheetEndsWithInvalidData ==
  (script = "validated" /\ excel # Unset /\ ~(RequiredSheets \subseteq excel.sheet_names))
    => /\ pc = "exit"
       /\ ret = Code(INVALID_DATA)
       /\ raised = NoExc
       /\ Printed(MissingSheetWarning)
       /\ (entry = "script" => exitStatus = Code(INVALID_DATA))
       /\ sheet_dict = Unset /\ improvement_volt = <<>> /\ percent_activation = <<>>
       /\ p_value = Unset /\ ~wroteReport /\ ~wrotePlot

\* a workbook with exactly two of the three required sheets has been rejected
C2_Witness ==
  /\ pc = "exit" /\ script = "validated" /\ excel # Unset
  /\ Cardinality(excel.sheet_names \cap RequiredSheets) = 2
  /\ ret = Code(INVALID_DATA)

\* C3: a run of the validated script that completes every stage without error
\* makes main return 0 (SUCCESS).
C3_CompleteRunReturnsSuccess ==
  (pc = "exit" /\ script = "validated" /\ raised = NoExc /\ wroteReport /\ wrotePlot)
    => ret = Code(SUCCESS)

\* the frame lacks a motor-score column, or a row has a zero on-stim score or a
\* zero voltage
MalformedMotorSheet(df) ==
  \/ ~(MotorColumns \subseteq df.columns)
  \/ \E i \in 1..Len(df.rows) :
       df.rows[i]["Motor score (on stim)"] = 0 \/ df.rows[i]["Voltage [V]"] = 0

\* C4: whenever a motor-score sheet has a row with on-stim score 0 or voltage 0,
\* or lacks a required column, no improvement scores are returned and the
\* validated script ends with the invalid-data code 1.
C4_ZeroDivisorEndsWithInvalidData ==
  (script = "validated" /\ sheet_dict # Unset /\ pc # "compute"
     /\ \E n \in {"LSTN_activation", "RSTN_activation"} : MalformedMotorSheet(sheet_dict[n]))
    => /\ pc = "exit"
       /\ ret = Code(INVALID_DATA)
       /\ improvement_volt = <<>>

\* structure volume and activated volume of a row, as the called function reads them
StructureVolume(c, row) ==
  IF c.fn = "process_stn_activation" THEN row[StnVolCol(c.side)]
  ELSE row[DStnVolCol(c.side)] + row[VStnVolCol(c.side)]
ActivatedVolume(c, row) ==
  IF c.fn = "process_stn_activation" THEN row[VtaCol(c.side)]
  ELSE row[VtaDCol(c.side)] + row[VtaVCol(c.side)]
PercentColumns(c) ==
  IF c.fn = "process_stn_activation" THEN StnColumns(c.side) ELSE StnColumnsSplit(c.side)

\* C5: percent_activation raises (malformed record) whenever the structure
\* volume of some patient is zero; otherwise every result is >= 0 whenever the
\* activated volume is between 0 and the structure volume.
C5_ZeroVolumeRaises ==
  (/\ call.fn \in {"process_stn_activation", "process_stn_activation_split"}
   /\ fnResult # Unset
   /\ PercentColumns(call) \subseteq call.df.columns)
    => IF \E i \in 1..Len(call.df.rows) : StructureVolume(call, call.df.rows[i]) = 0
       THEN fnResult.kind = "raise"
       ELSE /\ fnResult.kind = "ok"
            /\ \A i \in 1..Len(fnResult.val) :
                 LET row == call.df.rows[fnResult.val[i].idx]
                 IN ActivatedVolume(call, row) <= StructureVolume(call, row)
                      => fnResult.val[i].val[1] >= 0 /\ fnResult.val[i].val[2] > 0

\* C6: when the path names an existing file of zero bytes, the run reports an
\* empty-input error and ends with a non-zero status before any sheet is
\* parsed, in the validated script as in the earlier one.
C6_EmptyInputReported ==
  (pc = "exit" /\ inputKind = "empty")
    => /\ Printed(EmptyInputMessage)
       /\ excel = Unset
       /\ (entry = "script" => exitStatus \notin {Unset, Code(0)})

\* C7: after a run that wrote the report, wilcoxon_test_out.txt holds exactly
\* the header line followed by that run's result, whatever it held before
\* (overwrite, not append).
C7_ReportHoldsOnlyLastResult ==
  wroteReport
    => /\ reportFile # Absent
       /\ Len(reportFile.text) = 6
       /\ reportFile.text[1] = "Wilcoxon_p-values:\n"
       /\ reportFile.text[3] = p_value.statistic
       /\ reportFile.text[5] = p_value.pvalue

\* the report was written over a different report of an earlier run
C7_Witness ==
  /\ wroteReport
  /\ reportBefore # Absent
  /\ reportBefore.text[3] # reportFile.text[3]

\* C8: improvement_score returns, for every input row, (off / on) / voltage of
\* that same row (checked by cross-multiplication where on and voltage are not
\* zero), ordered by ascending patient identifier whatever the row order of
\* the sheet; the example rows in any order yield [1.0, 3.0, 0.25].
C8_ImprovementScoresSortedByPatient ==
  (/\ call.fn = "process_lstn_activation"
   /\ fnResult # Unset
   /\ MotorColumns \subseteq call.df.columns)
    => /\ fnResult.kind = "ok"
       /\ LET s == fnResult.val
              rows == call.df.rows
          IN /\ Len(s) = Len(rows)
             /\ {s[i].idx : i \in 1..Len(s)} = 1..Len(rows)
             /\ \A i \in 1..Len(s) :
                  LET on == rows[s[i].idx]["Motor score (on stim)"]
                      off == rows[s[i].idx]["Motor score (off stim)"]
                      v == rows[s[i].idx]["Voltage [V]"]
                  IN (on # 0 /\ v # 0)
                       => /\ s[i].val[2] > 0
                          /\ s[i].val[1] * (on * v) = off * s[i].val[2]
             /\ \A i \in 1..(Len(s) - 1) :
                  rows[s[i].idx]["Patient"] <= rows[s[i + 1].idx]["Patient"]
             /\ (call.df \in ExampleFrames
                   => Values(s) = << <<1, 1>>, <<3, 1>>, <<1, 4>> >>)

\* the example sheet with patient 3 in its first row and patient 1 not in its
\* first two has been scored
C8_Witness ==
  /\ call.fn = "process_lstn_activation"
  /\ call.df \in ExampleFrames
  /\ call.df.rows[1]["Patient"] = 3 /\ call.df.rows[3]["Patient"] = 1
  /\ fnResult # Unset
  /\ fnResult.kind = "ok"

SameMultiset(a, b) ==
  /\ Len(a) = Len(b)
  /\ \A i \in 1..Len(a) :
       Cardinality({j \in 1..Len(a) : a[j] = a[i]}) = Cardinality({j \in 1..Len(b) : b[j] = a[i]})

\* C9: when the left and right improvement-score samples are identical (same
\* multiset of values, not empty), the rank comparator reports statistic 0 and
\* p-value 1.
C9_IdenticalSamplesGiveZeroStatistic ==
  (/\ script = "validated" /\ p_value # Unset
   /\ Len(improvement_volt[1]) > 0
   /\ SameMultiset(Values(improvement_volt[1]), Values(improvement_volt[2])))
    => /\ p_value.statistic = [sign |-> 0, sq |-> <<0, 1>>]
       /\ p_value.pvalue = [value |-> "1.0"]

\* C10: the artifacts are touched only after the four derivations and the
\* rank-sum test, the report before the image: a run that has not reached the
\* report leaves both files as they were, and the image is never written in a
\* run that has not written the report.
C10_ArtifactsOnlyAfterMetrics ==
  /\ ~wroteReport => reportFile = reportBefore
  /\ ~wrotePlot => plotFile = plotBefore
  /\ wrotePlot => wroteReport
  /\ wroteReport
       => Len(improvement_volt) = 2 /\ Len(percent_activation) = 2 /\ p_value # Unset
  /\ (pc = "exit" /\ p_value = Unset) => ~wroteReport /\ ~wrotePlot

\* a run failed in the metric derivation while both artifacts of an earlier run
\* existed
C10_Witness ==
  /\ pc = "exit" /\ script = "validated"
  /\ sheet_dict # Unset /\ p_value = Unset
  /\ reportBefore # Absent /\ plotBefore # Absent
  /\ reportFile = reportBefore /\ plotFile = plotBefore

====
